---- MODULE Spec2Model ----
(***************************************************************************)
(* Model of pdf_read.py: process_zip_to_searchable_pdf, one invocation.    *)
(*                                                                         *)
(* File names and paths are sequences of one-character strings, compared   *)
(* by code point as Python compares str.  Paths are relative to temp_dir:  *)
(* <<>> is temp_dir itself.  A file's content is a record                  *)
(*   [src |-> the archive entry the pixels come from, mode |-> ...]        *)
(* with mode "RGB", "P" (decodable, not RGB) or "corrupt" (PIL raises).    *)
(*                                                                         *)
(* ocrmypdf.ocr(input_file, output_file, **params) is the library call:    *)
(* it raises, or it writes to output_file a new one-page PDF made from     *)
(* input_file.  The library has no parameter existing_pdf; given that      *)
(* keyword it rejects the call or ignores the keyword, depending on the    *)
(* installed version, so both outcomes are kept.                           *)
(***************************************************************************)
EXTENDS Integers, Sequences, FiniteSets, TLC

VARIABLES
    archive,      \* zip_file: [readable, entries: entry name -> mode]
    pc,           \* position in process_zip_to_searchable_pdf
    temp_dir,     \* [exists, files: path -> content]
    output_dir,   \* [exists, pdf: pages of searchable_output.pdf, <<>> if none]
    stack,        \* os.walk: directories still to visit
    root,         \* os.walk: directory being visited
    files,        \* sorted(files) of the directory being visited
    idx,          \* position of the inner for loop in files
    image_paths,  \* image_paths
    warnings,     \* st.warning("Skipped ..."): the file names, in order
    k,            \* index in image_paths of the next ocrmypdf.ocr call
    outcome,      \* which st.error was shown, "ok" on return of bytes
    ret,          \* return value: [kind |-> "running" | "None" | "bytes", pages]
    opened,       \* history: paths given to Image.open
    ingested,     \* history: per element of image_paths, the path read and its content
    ocrLog        \* history: result of each ocrmypdf.ocr call, in order

vars == <<archive, pc, temp_dir, output_dir, stack, root, files, idx, image_paths,
          warnings, k, outcome, ret, opened, ingested, ocrLog>>

(***************************************************************************)
(* Bounds                                                                  *)
(***************************************************************************)
MaxEntries == 3

(***************************************************************************)
(* Characters and strings                                                  *)
(***************************************************************************)
\* ASCII 46 .. 122 in code point order (92 and 96 by name)
Ascii ==
    <<".", "/", "0", "1", "2", "3", "4", "5", "6", "7", "8", "9",
      ":", ";", "<", "=", ">", "?", "@",
      "A", "B", "C", "D", "E", "F", "G", "H", "I", "J", "K", "L", "M",
      "N", "O", "P", "Q", "R", "S", "T", "U", "V", "W", "X", "Y", "Z",
      "[", "bslash", "]", "^", "_", "btick",
      "a", "b", "c", "d", "e", "f", "g", "h", "i", "j", "k", "l", "m",
      "n", "o", "p", "q", "r", "s", "t", "u", "v", "w", "x", "y", "z">>

\* ord(), tabulated
OrdTable == [c \in {Ascii[i] : i \in 1..Len(Ascii)} |->
               45 + (CHOOSE i \in 1..Len(Ascii) : Ascii[i] = c)]

Ord(c) == OrdTable[c]

Chr(n) == Ascii[n - 45]

\* str.lower() on one character
LowerChar(c) == IF Ord(c) >= Ord("A") /\ Ord(c) <= Ord("Z") THEN Chr(Ord(c) + 32) ELSE c

\* str.lower()
Lower(s) == [i \in 1..Len(s) |-> LowerChar(s[i])]

\* str.endswith
EndsWith(s, suffix) ==
    /\ Len(suffix) <= Len(s)
    /\ SubSeq(s, Len(s) - Len(suffix) + 1, Len(s)) = suffix

\* Python's str < str: first differing code point decides, a proper prefix is smaller
StrLess(a, b) ==
    \E i \in 1..(Len(b)) :
        /\ \A j \in 1..(i - 1) : j <= Len(a) /\ a[j] = b[j]
        /\ \/ i = Len(a) + 1
           \/ i <= Len(a) /\ Ord(a[i]) < Ord(b[i])

\* sorted(S) for a set of distinct strings
RECURSIVE Sorted(_)
Sorted(S) ==
    IF S = {} THEN <<>>
    ELSE LET m == CHOOSE x \in S : \A y \in S \ {x} : StrLess(x, y)
         IN  <<m>> \o Sorted(S \ {m})

\* decimal digits of a natural number
RECURSIVE Decimal(_)
Decimal(n) == IF n < 10 THEN <<Chr(Ord("0") + n)>>
              ELSE Decimal(n \div 10) \o <<Chr(Ord("0") + (n % 10))>>

\* format spec 03d: zero-padded to width 3, never truncated
RECURSIVE ZeroPad(_, _)
ZeroPad(s, width) == IF Len(s) >= width THEN s ELSE ZeroPad(<<"0">> \o s, width)

Format03d(n) == ZeroPad(Decimal(n), 3)

(***************************************************************************)
(* Paths                                                                   *)
(***************************************************************************)
\* index of the last "/" of p, 0 if none
LastSlash(p) ==
    IF \E i \in 1..Len(p) : p[i] = "/"
    THEN CHOOSE i \in 1..Len(p) : p[i] = "/" /\ \A j \in (i + 1)..Len(p) : p[j] # "/"
    ELSE 0

Dirname(p) == IF LastSlash(p) = 0 THEN <<>> ELSE SubSeq(p, 1, LastSlash(p) - 1)

Basename(p) == SubSeq(p, LastSlash(p) + 1, Len(p))

\* os.path.join(root, file), relative to temp_dir
Join(dir, file) == IF dir = <<>> THEN file ELSE dir \o <<"/">> \o file

\* the directories that extractall creates for a set of paths
DirsOf(paths) ==
    UNION { {SubSeq(p, 1, i - 1) : i \in {j \in 1..Len(p) : p[j] = "/"}} : p \in paths }

\* what os.walk's listing of directory dir gives: file names and subdirectories
FileNamesIn(fs, dir) == {Basename(p) : p \in {q \in DOMAIN fs : Dirname(q) = dir}}

SubdirsIn(fs, dir) == {d \in DirsOf(DOMAIN fs) : Dirname(d) = dir}

\* every order in which the listing may give a set of directories
Orders(S) == {o \in [1..Cardinality(S) -> S] : \A i, j \in 1..Cardinality(S) : o[i] = o[j] => i = j}

\* fs with path written
Write(fs, path, content) ==
    [p \in DOMAIN fs \cup {path} |-> IF p = path THEN content ELSE fs[p]]

(***************************************************************************)
(* Program constants                                                       *)
(***************************************************************************)
valid_extensions ==
    { <<".", "j", "p", "g">>, <<".", "j", "p", "e", "g">>, <<".", "p", "n", "g">>,
      <<".", "g", "i", "f">>, <<".", "t", "i", "f", "f">>, <<".", "b", "m", "p">> }

\* line 39 without the call of lower()
IsImageFileCaseSensitive(file) == \E ext \in valid_extensions : EndsWith(file, ext)

\* the test of line 39
IsImageFile(file) == \E ext \in valid_extensions : EndsWith(Lower(file), ext)

\* the name of line 49
OutputImageName(n) ==
    <<"i", "m", "a", "g", "e", "_">> \o Format03d(n) \o <<".", "j", "p", "g">>

\* Image.open + convert + save succeed on this content
Decodable(content) == content.mode # "corrupt"

\* the validated copy: same pixels, RGB
Validated(content) == [src |-> content.src, mode |-> "RGB"]

\* line 55 as "if len(image_paths) <= 1"
NoImagesOffByOne(paths) == Len(paths) <= 1

\* "if not image_paths" of line 55
NoImages(paths) == paths = <<>>

\* a text layer that drops the tokens below a confidence of 0.5
TextLayerThreshold(recognized) == {t \in recognized : t.conf >= 5}

\* the text layer ocrmypdf gives a page: ocr_params (lines 65-70) holds language,
\* optimize, skip_text and progress_bar, and no confidence threshold, so every
\* recognized token is embedded
TextLayer(recognized) == recognized

\* the page ocrmypdf.ocr makes from an input image
OcrPage(img, recognized) ==
    [src |-> img.src, recognized |-> recognized, text |-> TextLayer(recognized)]

\* output_file after a call of ocrmypdf.ocr that does not raise: a new document
\* made from input_file alone, whatever output_file held
OcrWrite(pdf, page) == <<page>>

\* line 109 as a return of whatever the output file holds
OcrFailedValuePartial(pdf) == [kind |-> "bytes", pages |-> pdf]

\* "return None" of line 109
OcrFailedValue(pdf) == [kind |-> "None", pages |-> <<>>]

(***************************************************************************)
(* Inputs                                                                  *)
(***************************************************************************)
NamePool ==
    { <<"a", ".", "p", "n", "g">>,
      <<"B", ".", "P", "N", "G">>,
      <<"i", "m", "a", "g", "e", "_", "0", "0", "0", ".", "j", "p", "g">>,
      <<"n", "o", "t", "e", "s", ".", "t", "x", "t">>,
      <<"x", "p", "n", "g">>,
      <<"d", "/", "c", ".", "j", "p", "e", "g">>,
      <<"e", "/", "b", ".", "b", "m", "p">> }

Modes == {"RGB", "P", "corrupt"}

\* tokens the OCR engine may recognize in an image, confidence in tenths
Tokens == { [text |-> "lo", conf |-> 3], [text |-> "eq", conf |-> 5], [text |-> "hi", conf |-> 7] }

NoRet == [kind |-> "running", pages |-> <<>>]

Init ==
    /\ \E names \in SUBSET NamePool :
         /\ Cardinality(names) <= MaxEntries
         /\ \E readable \in BOOLEAN :
              /\ (~readable => names = {})
              /\ \E modes \in [names -> Modes] :
                   archive = [readable |-> readable, entries |-> modes]
    /\ pc = "start"
    /\ temp_dir = [exists |-> FALSE, files |-> <<>>]
    /\ output_dir = [exists |-> FALSE, pdf |-> <<>>]
    /\ stack = <<>>
    /\ root = <<>>
    /\ files = <<>>
    /\ idx = 1
    /\ image_paths = <<>>
    /\ warnings = <<>>
    /\ k = 1
    /\ outcome = "none"
    /\ ret = NoRet
    /\ opened = {}
    /\ ingested = <<>>
    /\ ocrLog = <<>>

\* a cleanup that forgets the extraction directory
ReleaseDirsLeak ==
    /\ temp_dir' = temp_dir
    /\ output_dir' = [exists |-> FALSE, pdf |-> <<>>]

(***************************************************************************)
(* Leaving the with block: both TemporaryDirectory objects are cleaned up  *)
(***************************************************************************)
ReleaseDirs ==
    /\ temp_dir' = [exists |-> FALSE, files |-> <<>>]
    /\ output_dir' = [exists |-> FALSE, pdf |-> <<>>]

\* a return from inside the with block
Return(value, shown) ==
    /\ ret' = value
    /\ outcome' = shown
    /\ pc' = "done"
    /\ ReleaseDirs

(***************************************************************************)
(* Lines 26-30: the directories are created and the archive is extracted   *)
(***************************************************************************)
CreateTempDirs ==
    /\ pc = "start"
    /\ temp_dir' = [exists |-> TRUE, files |-> <<>>]
    /\ output_dir' = [exists |-> TRUE, pdf |-> <<>>]
    /\ pc' = "extract"
    /\ UNCHANGED <<archive, stack, root, files, idx, image_paths, warnings, k,
                   outcome, ret, opened, ingested, ocrLog>>

ExtractAll ==
    /\ pc = "extract"
    /\ archive.readable
    /\ temp_dir' = [exists |-> TRUE,
                    files |-> [p \in DOMAIN archive.entries |->
                                 [src |-> p, mode |-> archive.entries[p]]]]
    /\ stack' = << <<>> >>
    /\ pc' = "walk"
    /\ UNCHANGED <<archive, output_dir, root, files, idx, image_paths, warnings, k,
                   outcome, ret, opened, ingested, ocrLog>>

\* zipfile.ZipFile raises: the handler of lines 111-113
ExtractFails ==
    /\ pc = "extract"
    /\ ~archive.readable
    /\ Return([kind |-> "None", pages |-> <<>>], "ZipError")
    /\ UNCHANGED <<archive, stack, root, files, idx, image_paths, warnings, k,
                   opened, ingested, ocrLog>>

(***************************************************************************)
(* Lines 37-53: the walk                                                   *)
(***************************************************************************)
\* os.walk yields the next directory, top-down: its listing is taken now
WalkDir ==
    /\ pc = "walk"
    /\ stack # <<>>
    /\ LET dir == Head(stack) IN
         /\ root' = dir
         /\ files' = Sorted(FileNamesIn(temp_dir.files, dir))
         /\ \E order \in Orders(SubdirsIn(temp_dir.files, dir)) :
              stack' = order \o Tail(stack)
    /\ idx' = 1
    /\ pc' = "files"
    /\ UNCHANGED <<archive, temp_dir, output_dir, image_paths, warnings, k,
                   outcome, ret, opened, ingested, ocrLog>>

\* line 39 is false
SkipOtherFile ==
    /\ pc = "files"
    /\ idx <= Len(files)
    /\ ~IsImageFile(files[idx])
    /\ idx' = idx + 1
    /\ UNCHANGED <<archive, pc, temp_dir, output_dir, stack, root, files, image_paths,
                   warnings, k, outcome, ret, opened, ingested, ocrLog>>

\* lines 40-51
SaveValidated ==
    /\ pc = "files"
    /\ idx <= Len(files)
    /\ IsImageFile(files[idx])
    /\ LET image_path == Join(root, files[idx])
           img == temp_dir.files[image_path]
           output_image_path == Join(<<>>, OutputImageName(Len(image_paths)))
       IN  /\ Decodable(img)
           /\ opened' = opened \cup {image_path}
           /\ temp_dir' = [temp_dir EXCEPT
                             !.files = Write(temp_dir.files, output_image_path, Validated(img))]
           /\ image_paths' = Append(image_paths, output_image_path)
           /\ ingested' = Append(ingested, [entry |-> image_path, src |-> img.src])
    /\ idx' = idx + 1
    /\ UNCHANGED <<archive, pc, output_dir, stack, root, files, warnings, k,
                   outcome, ret, ocrLog>>

\* lines 43-46 raise: lines 52-53
SkipBadImage ==
    /\ pc = "files"
    /\ idx <= Len(files)
    /\ IsImageFile(files[idx])
    /\ LET image_path == Join(root, files[idx])
           img == temp_dir.files[image_path]
       IN  /\ ~Decodable(img)
           /\ opened' = opened \cup {image_path}
    /\ warnings' = Append(warnings, files[idx])
    /\ idx' = idx + 1
    /\ UNCHANGED <<archive, pc, temp_dir, output_dir, stack, root, files, image_paths,
                   k, outcome, ret, ingested, ocrLog>>

\* the inner for loop is over
EndOfFiles ==
    /\ pc = "files"
    /\ idx > Len(files)
    /\ pc' = "walk"
    /\ UNCHANGED <<archive, temp_dir, output_dir, stack, root, files, idx, image_paths,
                   warnings, k, outcome, ret, opened, ingested, ocrLog>>

(***************************************************************************)
(* Lines 55-57 and 59-77: after the walk                                   *)
(***************************************************************************)
NoValidImages ==
    /\ pc = "walk"
    /\ stack = <<>>
    /\ NoImages(image_paths)
    /\ Return([kind |-> "None", pages |-> <<>>], "NoValidImages")
    /\ UNCHANGED <<archive, stack, root, files, idx, image_paths, warnings, k,
                   opened, ingested, ocrLog>>

StartOcr ==
    /\ pc = "walk"
    /\ stack = <<>>
    /\ ~NoImages(image_paths)
    /\ pc' = "ocr"
    /\ k' = 1
    /\ UNCHANGED <<archive, temp_dir, output_dir, stack, root, files, idx, image_paths,
                   warnings, outcome, ret, opened, ingested, ocrLog>>

(***************************************************************************)
(* Lines 77-99: the calls of ocrmypdf.ocr                                  *)
(***************************************************************************)
\* lines 79-83 (several images) and 95-99 (one image): the call returns
OcrFirst ==
    /\ pc = "ocr"
    /\ k = 1
    /\ k <= Len(image_paths)
    /\ \E recognized \in SUBSET Tokens :
         output_dir' = [output_dir EXCEPT
            !.pdf = OcrWrite(output_dir.pdf,
                             OcrPage(temp_dir.files[image_paths[k]], recognized))]
    /\ ocrLog' = Append(ocrLog, "ok")
    /\ k' = k + 1
    /\ UNCHANGED <<archive, pc, temp_dir, stack, root, files, idx, image_paths,
                   warnings, outcome, ret, opened, ingested>>

\* lines 86-92: the call with existing_pdf returns
OcrAppend ==
    /\ pc = "ocr"
    /\ k > 1
    /\ k <= Len(image_paths)
    /\ \E recognized \in SUBSET Tokens :
         output_dir' = [output_dir EXCEPT
            !.pdf = OcrWrite(output_dir.pdf,
                             OcrPage(temp_dir.files[image_paths[k]], recognized))]
    /\ ocrLog' = Append(ocrLog, "ok")
    /\ k' = k + 1
    /\ UNCHANGED <<archive, pc, temp_dir, stack, root, files, idx, image_paths,
                   warnings, outcome, ret, opened, ingested>>

\* a handler inside the loop, which absorbs the failure and goes on
OcrRaisesAbsorbed ==
    /\ pc = "ocr"
    /\ k <= Len(image_paths)
    /\ ocrLog' = Append(ocrLog, "raise")
    /\ k' = k + 1
    /\ UNCHANGED <<archive, pc, temp_dir, output_dir, stack, root, files, idx,
                   image_paths, warnings, outcome, ret, opened, ingested>>

\* any of the calls raises: the handler of lines 107-109
OcrRaises ==
    /\ pc = "ocr"
    /\ k <= Len(image_paths)
    /\ ocrLog' = Append(ocrLog, "raise")
    /\ Return(OcrFailedValue(output_dir.pdf), "OCRFailed")
    /\ UNCHANGED <<archive, stack, root, files, idx, image_paths, warnings, k,
                   opened, ingested>>

\* lines 101-105
ReadPdf ==
    /\ pc = "ocr"
    /\ k > Len(image_paths)
    /\ Return([kind |-> "bytes", pages |-> output_dir.pdf], "ok")
    /\ UNCHANGED <<archive, stack, root, files, idx, image_paths, warnings, k,
                   opened, ingested, ocrLog>>

Next ==
    \/ CreateTempDirs
    \/ ExtractAll
    \/ ExtractFails
    \/ WalkDir
    \/ SkipOtherFile
    \/ SaveValidated
    \/ SkipBadImage
    \/ EndOfFiles
    \/ NoValidImages
    \/ StartOcr
    \/ OcrFirst
    \/ OcrAppend
    \/ OcrRaises
    \/ ReadPdf

Spec == Init /\ [][Next]_vars

(***************************************************************************)
(* Properties                                                              *)
(***************************************************************************)
ExtensionNames ==
    { <<"j", "p", "g">>, <<"j", "p", "e", "g">>, <<"p", "n", "g">>,
      <<"g", "i", "f">>, <<"t", "i", "f", "f">>, <<"b", "m", "p">> }

\* an archive entry whose name ends with a supported extension, in any case
SupportedEntry(name) == \E e \in ExtensionNames : EndsWith(Lower(name), <<".">> \o e)

SupportedEntries == {e \in DOMAIN archive.entries : SupportedEntry(e)}

CorruptEntries == {e \in SupportedEntries : archive.entries[e] = "corrupt"}

\* the walk is over
WalkDone == archive.readable /\ (pc \in {"ocr", "done"} \/ (pc = "walk" /\ stack = <<>>))

\* every page that exists: in the output file or in the returned bytes
AllPages == {output_dir.pdf[i] : i \in 1..Len(output_dir.pdf)}
            \cup {ret.pages[i] : i \in 1..Len(ret.pages)}

\* C1: ingested images are in ascending order of archive entry name (byte
\* comparison), nested directories included, and page i of the returned
\* document is made from the i-th ingested image.
C1_PagesInEntryNameOrder ==
    /\ \A i, j \in 1..Len(ingested) :
         i < j => StrLess(ingested[i].entry, ingested[j].entry)
    /\ ret.kind = "bytes" =>
         \A i \in 1..Len(ret.pages) :
            i <= Len(ingested) /\ ret.pages[i].src = ingested[i].entry

\* C2: returned document bytes hold exactly one page per ingested image, and
\* while the calls run each completed call has added exactly one page to the
\* output file.
C2_OnePagePerImage ==
    /\ ret.kind = "bytes" => Len(ret.pages) = Len(image_paths)
    /\ pc = "ocr" => Len(output_dir.pdf) = k - 1

C4_DecodeFailuresSkipped ==
    LET n == Cardinality(SupportedEntries)
        kf == Cardinality(CorruptEntries)
    IN  (kf > 0 /\ kf < n /\ ret.kind = "bytes") =>
            /\ Len(ret.pages) = n - kf
            /\ Len(warnings) = kf
            /\ {warnings[i] : i \in 1..Len(warnings)} = {Basename(e) : e \in CorruptEntries}

\* C5: the run ends with "No valid images found" exactly when the archive was
\* read and no image was ingested (no supported entry decoded); then no OCR
\* call was made, nothing is returned and no page exists.
C5_NoValidImagesIffEmpty ==
    /\ pc = "done" => (outcome = "NoValidImages" <=> (archive.readable /\ ingested = <<>>))
    /\ pc # "done" => outcome = "none"
    /\ outcome = "NoValidImages" =>
         /\ SupportedEntries = CorruptEntries
         /\ ocrLog = <<>>
         /\ ret.kind = "None"
         /\ AllPages = {}

C5_Witness ==
    /\ outcome = "NoValidImages"
    /\ warnings # <<>>
    /\ SupportedEntries # DOMAIN archive.entries

\* C6: bytes are returned only after the OCR call of every ingested image has
\* returned; on every other path (unreadable archive, no valid images, a call
\* that raises at any image) None is returned and no page with it.
C6_AllOrNothing ==
    /\ ret.kind = "bytes" =>
         /\ image_paths # <<>>
         /\ Len(ocrLog) = Len(image_paths)
         /\ \A i \in 1..Len(ocrLog) : ocrLog[i] = "ok"
    /\ outcome \in {"ZipError", "NoValidImages", "OCRFailed"} =>
         ret = [kind |-> "None", pages |-> <<>>]
    /\ pc # "done" => ret.kind = "running"
    /\ pc = "done" => (ret.kind = "bytes" <=> outcome = "ok")

C6_Witness ==
    /\ outcome = "OCRFailed"
    /\ Len(ocrLog) >= 2
    /\ ret.kind = "None"

C8_DirsReleased ==
    /\ pc \in {"start", "done"} =>
         /\ ~temp_dir.exists
         /\ ~output_dir.exists
         /\ temp_dir.files = <<>>
         /\ output_dir.pdf = <<>>
    /\ pc \notin {"start", "done"} => temp_dir.exists /\ output_dir.exists

C8_Witness ==
    /\ pc = "done"
    /\ outcome = "ok"
    /\ Len(image_paths) >= 2
    /\ ~temp_dir.exists

C10_OwnSourceContent ==
    /\ \A p \in DOMAIN archive.entries :
         (temp_dir.exists /\ p \in DOMAIN temp_dir.files /\ p \notin opened) =>
             temp_dir.files[p].src = p
    /\ \A i \in 1..Len(ingested) : ingested[i].src = ingested[i].entry

====
